---- MODULE Spec2Model ----
(***************************************************************************)
(* Model of the agentpulse Anchor program (src/anchor/lib.rs).             *)
(*                                                                         *)
(* The program exposes two instructions, record_evaluation and             *)
(* record_vote.  Each creates (`init`) one program-derived account and     *)
(* fills it from the instruction arguments.  An instruction runs inside    *)
(* one ledger transaction: account validation (the #[derive(Accounts)]     *)
(* structs), then the handler, then the serialisation of the account;      *)
(* the ledger keeps the transaction's writes only when the instruction     *)
(* returns Ok.  `store` and `balance` are the ledger's committed state,    *)
(* `work` is the transaction's private view of them.                       *)
(*                                                                         *)
(* Idealisations: SHA-256 is collision free (Sha256 keeps its preimage),   *)
(* and the ed25519 curve test on a digest, which the model cannot compute, *)
(* is the fixed stand-in OnCurve: it gives different keys different        *)
(* outcomes of the bump search, including the exhausted search.  Lamports  *)
(* are counted in units of the rent of one byte; transaction fees are not  *)
(* modelled.                                                               *)
(***************************************************************************)
EXTENDS Integers, Sequences, FiniteSets, TLC

\* ------------------------------------------------------------------ bounds
\* Number of transactions submitted in one behaviour.
MaxTx == 2
\* Largest value of the clock sysvar's unix_timestamp (it starts at 1).
MaxClock == 2

\* --------------------------------------------------------------- constants
\* project_name.len().min(64) (line 20) and #[max_len(64)] (line 88).
MaxNameLen == 64
\* The Anchor account discriminator: `8 +` in `space = 8 + ..::INIT_SPACE`.
DiscriminatorLen == 8

\* ------------------------------------------------------------------- bytes
RECURSIVE Repeat(_, _)
Repeat(b, n) == IF n = 0 THEN <<>> ELSE <<b>> \o Repeat(b, n - 1)

RECURSIVE Sum(_)
Sum(s) == IF s = <<>> THEN 0 ELSE Head(s) + Sum(Tail(s))

Min(a, b) == IF a < b THEN a ELSE b

\* A Pubkey is 32 bytes; the model's keys repeat one byte.
Pubkey(b) == Repeat(b, 32)

\* Pubkey::default(), the value of the field in a zeroed account.
DefaultPubkey == Pubkey(0)

\* u32::to_le_bytes
ToLeBytes(n) ==
    << n % 256, (n \div 256) % 256, (n \div 65536) % 256, (n \div 16777216) % 256 >>

\* UTF-8 encoding of one code point (a Rust String is its UTF-8 bytes).
Utf8Char(c) ==
    IF c < 128 THEN << c >>
    ELSE IF c < 2048 THEN << 192 + (c \div 64), 128 + (c % 64) >>
    ELSE IF c < 65536 THEN
        << 224 + (c \div 4096), 128 + ((c \div 64) % 64), 128 + (c % 64) >>
    ELSE << 240 + (c \div 262144), 128 + ((c \div 4096) % 64),
            128 + ((c \div 64) % 64), 128 + (c % 64) >>

RECURSIVE Utf8(_)
Utf8(cs) == IF cs = <<>> THEN <<>> ELSE Utf8Char(Head(cs)) \o Utf8(Tail(cs))

\* str::is_char_boundary: index 0, the length, or a byte that is no
\* continuation byte (0b10xxxxxx).  `i` is a 0-based byte index.
IsCharBoundary(s, i) ==
    \/ i = 0
    \/ i = Len(s)
    \/ /\ i < Len(s)
       /\ ~ (s[i + 1] >= 128 /\ s[i + 1] < 192)

\* &s[..n]: panics unless n is a char boundary of s.
SliceTo(s, n) ==
    IF n <= Len(s) /\ IsCharBoundary(s, n)
    THEN [ok |-> TRUE, val |-> SubSeq(s, 1, n)]
    ELSE [ok |-> FALSE, val |-> <<>>]

\* Variant of TruncateName: the cut is taken one byte short.
TruncateNameShorter(project_name) ==
    SliceTo(project_name, Min(Len(project_name), MaxNameLen - 1))

\* project_name[..project_name.len().min(64)].to_string()   (line 20)
TruncateName(project_name) == SliceTo(project_name, Min(Len(project_name), MaxNameLen))

\* ------------------------------------------------------ address derivation
\* b"eval" and b"vote", the first seed of each account (lines 58 and 74).
EvalTag == << 101, 118, 97, 108 >>
VoteTag == << 118, 111, 116, 101 >>

\* Variant of EvaluationSeeds: the project id is left out of the seeds.
EvaluationSeedsNoProjectId(authority, project_id) == << EvalTag, authority >>

\* seeds = [b"eval", authority.key().as_ref(), &project_id.to_le_bytes()]
EvaluationSeeds(authority, project_id) == << EvalTag, authority, ToLeBytes(project_id) >>

\* Variant of VoteSeeds: the tag of the evaluation account is reused.
VoteSeedsEvalTag(authority, project_id) == << EvalTag, authority, ToLeBytes(project_id) >>

\* seeds = [b"vote", authority.key().as_ref(), &project_id.to_le_bytes()]
VoteSeeds(authority, project_id) == << VoteTag, authority, ToLeBytes(project_id) >>

SeedsOf(kind, authority, project_id) ==
    IF kind = "eval" THEN EvaluationSeeds(authority, project_id)
    ELSE VoteSeeds(authority, project_id)

RECURSIVE Concat(_)
Concat(seeds) == IF seeds = <<>> THEN <<>> ELSE Head(seeds) \o Concat(Tail(seeds))

\* The digest of the seeds followed by the bump byte.  The hash is taken to
\* be collision free: a digest is identified with its preimage.  (The
\* program id and the marker string, constant in every preimage, are left
\* out of it.)
Sha256(bytes) == [preimage |-> bytes]

\* Stand-in for "the digest is a point of the ed25519 curve".  It depends on
\* the seed bytes and on the bump byte; over the keys of the model it makes
\* the search end at bump 255, at 254, at 0, and not at all.
OnCurve(digest) ==
    LET bytes == digest.preimage
        bump  == bytes[Len(bytes)]
        m     == Sum(SubSeq(bytes, 1, Len(bytes) - 1)) % 7
    IN  CASE m = 3 -> bump = 255
          [] m = 4 -> bump >= 1
          [] m = 1 -> TRUE
          [] OTHER -> FALSE

\* Pubkey::create_program_address: the digest, unless it lies on the curve.
CreateProgramAddress(seeds, bump) ==
    LET digest == Sha256(Concat(seeds) \o << bump >>)
    IN  IF OnCurve(digest) THEN [ok |-> FALSE, address |-> digest, bump |-> bump]
        ELSE [ok |-> TRUE, address |-> digest, bump |-> bump]

\* Pubkey::find_program_address (the `seeds`, `bump` constraints, lines
\* 58-59 and 74-75): bumps are tried from 255 downwards and the first one
\* whose address is off the curve wins, that is the largest such bump;
\* ok = FALSE when all 256 bumps fail.
FindProgramAddress(seeds) ==
    LET viable == {b \in 0..255 : CreateProgramAddress(seeds, b).ok}
    IN  IF viable = {}
        THEN [ok |-> FALSE, address |-> Sha256(Concat(seeds) \o << 0 >>), bump |-> 0]
        ELSE CreateProgramAddress(seeds, CHOOSE b \in viable : \A c \in viable : c <= b)

\* ----------------------------------------------------------------- records
\* EvaluationInitSpaceNoPrefix below is a variant of EvaluationInitSpace: the
\* 4-byte length prefix of project_name is not counted.
\* EvaluationRecord::INIT_SPACE and VoteRecord::INIT_SPACE, as #[derive(InitSpace)]
\* computes them from the fields (lines 85-95 and 99-106).
EvaluationInitSpaceNoPrefix == 32 + 4 + MaxNameLen + 2 + 2 + 32 + 8 + 1
EvaluationInitSpace == 32 + 4 + (4 + MaxNameLen) + 2 + 2 + 32 + 8 + 1
VoteInitSpace == 32 + 4 + 1 + 32 + 8 + 1

\* space = 8 + EvaluationRecord::INIT_SPACE   (line 57)
EvaluationSpace == DiscriminatorLen + EvaluationInitSpace
\* space = 8 + VoteRecord::INIT_SPACE         (line 73)
VoteSpace == DiscriminatorLen + VoteInitSpace

SpaceOf(kind) == IF kind = "eval" THEN EvaluationSpace ELSE VoteSpace

ZeroHash == Repeat(0, 32)

\* The deserialised content of a freshly created (all zero) account.
ZeroEvaluation ==
    [disc |-> "zero", authority |-> DefaultPubkey, project_id |-> 0,
     project_name |-> <<>>, score |-> 0, confidence |-> 0,
     reasoning_hash |-> ZeroHash, timestamp |-> 0, bump |-> 0]

ZeroVote ==
    [disc |-> "zero", authority |-> DefaultPubkey, project_id |-> 0,
     vote_type |-> 0, reasoning_hash |-> ZeroHash, timestamp |-> 0, bump |-> 0]

ZeroOf(kind) == IF kind = "eval" THEN ZeroEvaluation ELSE ZeroVote

\* Length of the Borsh serialisation of a record behind its discriminator.
SerializedLen(rec) ==
    IF "project_name" \in DOMAIN rec
    THEN DiscriminatorLen + 32 + 4 + (4 + Len(rec.project_name)) + 2 + 2 + 32 + 8 + 1
    ELSE DiscriminatorLen + 32 + 4 + 1 + 32 + 8 + 1

\* Rent-exempt minimum of an account of `space` bytes, in units of the rent
\* of one byte (the ledger charges 128 bytes of overhead per account).
Rent(space) == 128 + space

\* ------------------------------------------------------------------ inputs
Alice == Pubkey(1)
Bob == Pubkey(2)
Authorities == {Alice, Bob}

\* 256 = 00 01 00 00 and 257 = 01 01 00 00 in little-endian bytes.
ProjectIds == {256, 257}

HashA == Repeat(7, 32)
HashB == Repeat(200, 32)

\* Project names: 10 ASCII bytes; 100 ASCII bytes; 63 ASCII bytes followed by
\* U+00E9 (2 bytes, so byte 64 is not a char boundary) and one more byte; 62
\* ASCII bytes followed by U+00E9 and one more byte (byte 64 is a boundary).
NameShort == Utf8(Repeat(97, 10))
NameLong == Utf8(Repeat(97, 64) \o Repeat(98, 36))
NameSplit == Utf8(Repeat(97, 63) \o << 233, 98 >>)
NameMulti == Utf8(Repeat(97, 62) \o << 233, 98 >>)

\* Arguments of record_evaluation after project_id (lines 12-15).
EvaluationArgs ==
    { [project_name |-> NameShort, score |-> 87, confidence |-> 92, reasoning_hash |-> HashA],
      [project_name |-> NameLong, score |-> 65535, confidence |-> 0, reasoning_hash |-> HashB],
      [project_name |-> NameSplit, score |-> 50, confidence |-> 101, reasoning_hash |-> HashA],
      [project_name |-> NameMulti, score |-> 100, confidence |-> 65535, reasoning_hash |-> HashB] }

\* Arguments of record_vote after project_id (lines 35-36).
VoteArgs ==
    { [vote_type |-> 1, reasoning_hash |-> HashA],
      [vote_type |-> 255, reasoning_hash |-> HashB] }

\* Lamports of the two authorities before the first transaction: Alice can
\* pay for every account of a behaviour, Bob for one.
InitialBalance == (Alice :> 1000) @@ (Bob :> 300)

\* The addresses of the model's keys, derived once.
Kinds == {"eval", "vote"}

PdaTable ==
    { [key |-> k, pda |-> FindProgramAddress(SeedsOf(k[1], k[2], k[3]))] :
        k \in Kinds \X Authorities \X ProjectIds }

\* (address, bump) found for the seeds of (kind, authority, project_id).
Pda(kind, authority, project_id) ==
    (CHOOSE e \in PdaTable : e.key = << kind, authority, project_id >>).pda

\* ------------------------------------------------------------------- state
VARIABLES
    store,      \* committed accounts: address -> [lamports, space, data]
    balance,    \* committed lamports of each authority
    clock,      \* Clock sysvar: unix_timestamp
    pc,         \* "idle", "handler" (accounts validated), "done" (instruction returned)
    tx,         \* the instruction being executed
    work,       \* the transaction's view: [accounts, balance]
    ntx         \* transactions submitted so far

vars == << store, balance, clock, pc, tx, work, ntx >>

NoTx == [kind |-> "none"]

Init ==
    /\ store = << >>
    /\ balance = InitialBalance
    /\ clock = 1
    /\ pc = "idle"
    /\ tx = NoTx
    /\ work = [accounts |-> << >>, balance |-> InitialBalance]
    /\ ntx = 0

\* ------------------------------------------------------ account validation
\* Variant of SignerCheck: the authority is taken as a plain account.
SignerCheckSkipped(signed) == TRUE

\* authority: Signer<'info> (lines 63 and 79).
SignerCheck(signed) == signed

\* Variant of SeedsCheck: the account passed in is not compared.
SeedsCheckSkipped(account, pda) == TRUE

\* The `seeds`/`bump` constraint: the account passed in must be the address
\* found for the seeds.
SeedsCheck(account, pda) == account = pda.address

\* Variant of InitAccount: `init_if_needed`, an existing account is reused.
InitAccountIfNeeded(w, kind, payer, account) ==
    IF account \in DOMAIN w.accounts
    THEN [status |-> "Ok", work |-> w]
    ELSE IF w.balance[payer] < Rent(SpaceOf(kind))
    THEN [status |-> "InsufficientFunds", work |-> w]
    ELSE [status |-> "Ok",
          work |-> [accounts |-> w.accounts @@
                        (account :> [lamports |-> Rent(SpaceOf(kind)),
                                     space |-> SpaceOf(kind),
                                     data |-> ZeroOf(kind)]),
                    balance |-> [w.balance EXCEPT ![payer] = @ - Rent(SpaceOf(kind))]]]

\* `init, payer = authority, space = ...`: the system program creates the
\* account, paid by the payer; it refuses an address already in use.
InitAccount(w, kind, payer, account) ==
    IF account \in DOMAIN w.accounts
    THEN [status |-> "AccountAlreadyInUse", work |-> w]
    ELSE IF w.balance[payer] < Rent(SpaceOf(kind))
    THEN [status |-> "InsufficientFunds", work |-> w]
    ELSE [status |-> "Ok",
          work |-> [accounts |-> w.accounts @@
                        (account :> [lamports |-> Rent(SpaceOf(kind)),
                                     space |-> SpaceOf(kind),
                                     data |-> ZeroOf(kind)]),
                    balance |-> [w.balance EXCEPT ![payer] = @ - Rent(SpaceOf(kind))]]]

\* Variant of TryAccounts: the address is derived and compared before the
\* Signer is checked.
TryAccountsDeriveFirst(w, kind, authority, signed, account, project_id) ==
    LET pda == Pda(kind, authority, project_id)
    IN  IF ~ pda.ok
        THEN [status |-> "DerivationExhausted", work |-> w, bump |-> 0]
        ELSE IF ~ SeedsCheck(account, pda)
        THEN [status |-> "ConstraintSeeds", work |-> w, bump |-> 0]
        ELSE IF ~ SignerCheck(signed)
        THEN [status |-> "AccountNotSigner", work |-> w, bump |-> 0]
        ELSE LET r == InitAccount(w, kind, authority, account)
             IN  [status |-> r.status, work |-> r.work, bump |-> pda.bump]

\* Accounts::try_accounts of RecordEvaluation / RecordVote (lines 51-81):
\* the Signer is checked, then the init constraint derives the address,
\* compares it with the account passed in and creates the account.
TryAccounts(w, kind, authority, signed, account, project_id) ==
    LET pda == Pda(kind, authority, project_id)
    IN  IF ~ SignerCheck(signed)
        THEN [status |-> "AccountNotSigner", work |-> w, bump |-> 0]
        ELSE IF ~ pda.ok
        THEN [status |-> "DerivationExhausted", work |-> w, bump |-> 0]
        ELSE IF ~ SeedsCheck(account, pda)
        THEN [status |-> "ConstraintSeeds", work |-> w, bump |-> 0]
        ELSE LET r == InitAccount(w, kind, authority, account)
             IN  [status |-> r.status, work |-> r.work, bump |-> pda.bump]

\* ---------------------------------------------------------------- handlers
\* Variant of EvaluationHandler: score and confidence are exchanged.
EvaluationHandlerSwapped(eval, authority, project_id, args, clockOk, now, bump) ==
    LET e1   == [eval EXCEPT !.authority = authority, !.project_id = project_id]
        name == TruncateName(args.project_name)
        e2   == [e1 EXCEPT !.project_name = name.val, !.score = args.confidence,
                           !.confidence = args.score,
                           !.reasoning_hash = args.reasoning_hash]
    IN  IF ~ name.ok THEN [status |-> "Panic", rec |-> e1]
        ELSE IF ~ clockOk THEN [status |-> "ClockUnavailable", rec |-> e2]
        ELSE [status |-> "Ok", rec |-> [e2 EXCEPT !.timestamp = now, !.bump = bump]]

\* Variant of EvaluationHandler: a failed Clock::get() is ignored and the
\* handler returns Ok with timestamp and bump unset.
EvaluationHandlerIgnoreClock(eval, authority, project_id, args, clockOk, now, bump) ==
    LET e1   == [eval EXCEPT !.authority = authority, !.project_id = project_id]
        name == TruncateName(args.project_name)
        e2   == [e1 EXCEPT !.project_name = name.val, !.score = args.score,
                           !.confidence = args.confidence,
                           !.reasoning_hash = args.reasoning_hash]
    IN  IF ~ name.ok THEN [status |-> "Panic", rec |-> e1]
        ELSE IF ~ clockOk THEN [status |-> "Ok", rec |-> e2]
        ELSE [status |-> "Ok", rec |-> [e2 EXCEPT !.timestamp = now, !.bump = bump]]

\* Body of record_evaluation (lines 17-29).  The fields are assigned in the
\* order of the source; the slice of line 20 panics off a char boundary and
\* Clock::get()? of line 24 returns its error.  `rec` is the in-memory
\* account as the body leaves it.
EvaluationHandler(eval, authority, project_id, args, clockOk, now, bump) ==
    LET e1   == [eval EXCEPT !.authority = authority, !.project_id = project_id]
        name == TruncateName(args.project_name)
        e2   == [e1 EXCEPT !.project_name = name.val, !.score = args.score,
                           !.confidence = args.confidence,
                           !.reasoning_hash = args.reasoning_hash]
    IN  IF ~ name.ok THEN [status |-> "Panic", rec |-> e1]
        ELSE IF ~ clockOk THEN [status |-> "ClockUnavailable", rec |-> e2]
        ELSE [status |-> "Ok", rec |-> [e2 EXCEPT !.timestamp = now, !.bump = bump]]

\* Variant of VoteHandler: the bump is not stored.
VoteHandlerNoBump(vote, authority, project_id, args, clockOk, now, bump) ==
    LET v1 == [vote EXCEPT !.authority = authority, !.project_id = project_id,
                           !.vote_type = args.vote_type,
                           !.reasoning_hash = args.reasoning_hash]
    IN  IF ~ clockOk THEN [status |-> "ClockUnavailable", rec |-> v1]
        ELSE [status |-> "Ok", rec |-> [v1 EXCEPT !.timestamp = now]]

\* Body of record_vote (lines 38-47).
VoteHandler(vote, authority, project_id, args, clockOk, now, bump) ==
    LET v1 == [vote EXCEPT !.authority = authority, !.project_id = project_id,
                           !.vote_type = args.vote_type,
                           !.reasoning_hash = args.reasoning_hash]
    IN  IF ~ clockOk THEN [status |-> "ClockUnavailable", rec |-> v1]
        ELSE [status |-> "Ok", rec |-> [v1 EXCEPT !.timestamp = now, !.bump = bump]]

\* AccountsExit: the in-memory account is serialised, behind its
\* discriminator, into the account's data; it must fit the space.
AccountExit(w, account, rec, disc) ==
    IF SerializedLen(rec) > w.accounts[account].space
    THEN [status |-> "AccountDidNotSerialize", work |-> w]
    ELSE [status |-> "Ok",
          work |-> [w EXCEPT !.accounts[account].data = [rec EXCEPT !.disc = disc]]]

\* ----------------------------------------------------------------- actions
\* A record_evaluation instruction enters the program: its accounts are
\* validated (struct RecordEvaluation).  `owner` is the authority for whom
\* the client derived the account it passes.
RecordEvaluation ==
    /\ pc = "idle"
    /\ ntx < MaxTx
    /\ \E authority \in Authorities, signed \in BOOLEAN, owner \in Authorities,
          project_id \in ProjectIds, args \in EvaluationArgs :
          LET account == Pda("eval", owner, project_id).address
              r == TryAccounts([accounts |-> store, balance |-> balance], "eval",
                               authority, signed, account, project_id)
          IN  /\ tx' = [kind |-> "eval", authority |-> authority, signed |-> signed,
                        account |-> account, project_id |-> project_id, args |-> args,
                        bump |-> r.bump, status |-> r.status]
              /\ work' = r.work
              /\ pc' = IF r.status = "Ok" THEN "handler" ELSE "done"
    /\ ntx' = ntx + 1
    /\ UNCHANGED << store, balance, clock >>

\* A record_vote instruction enters the program (struct RecordVote).
RecordVote ==
    /\ pc = "idle"
    /\ ntx < MaxTx
    /\ \E authority \in Authorities, signed \in BOOLEAN, owner \in Authorities,
          project_id \in ProjectIds, args \in VoteArgs :
          LET account == Pda("vote", owner, project_id).address
              r == TryAccounts([accounts |-> store, balance |-> balance], "vote",
                               authority, signed, account, project_id)
          IN  /\ tx' = [kind |-> "vote", authority |-> authority, signed |-> signed,
                        account |-> account, project_id |-> project_id, args |-> args,
                        bump |-> r.bump, status |-> r.status]
              /\ work' = r.work
              /\ pc' = IF r.status = "Ok" THEN "handler" ELSE "done"
    /\ ntx' = ntx + 1
    /\ UNCHANGED << store, balance, clock >>

\* The handler record_evaluation runs and, when it returns Ok, the account
\* is written back.
record_evaluation ==
    /\ pc = "handler"
    /\ tx.kind = "eval"
    /\ \E clockOk \in BOOLEAN :
          LET h == EvaluationHandler(work.accounts[tx.account].data, tx.authority,
                                     tx.project_id, tx.args, clockOk, clock, tx.bump)
              r == IF h.status = "Ok"
                   THEN AccountExit(work, tx.account, h.rec, "EvaluationRecord")
                   ELSE [status |-> h.status, work |-> work]
          IN  /\ tx' = [tx EXCEPT !.status = r.status]
              /\ work' = r.work
    /\ pc' = "done"
    /\ UNCHANGED << store, balance, clock, ntx >>

\* The handler record_vote runs and, when it returns Ok, the account is
\* written back.
record_vote ==
    /\ pc = "handler"
    /\ tx.kind = "vote"
    /\ \E clockOk \in BOOLEAN :
          LET h == VoteHandler(work.accounts[tx.account].data, tx.authority,
                               tx.project_id, tx.args, clockOk, clock, tx.bump)
              r == IF h.status = "Ok"
                   THEN AccountExit(work, tx.account, h.rec, "VoteRecord")
                   ELSE [status |-> h.status, work |-> work]
          IN  /\ tx' = [tx EXCEPT !.status = r.status]
              /\ work' = r.work
    /\ pc' = "done"
    /\ UNCHANGED << store, balance, clock, ntx >>

\* What the ledger keeps of a finished transaction: its writes when the
\* instruction returned Ok (`Result<()>` of lines 16 and 37), nothing
\* otherwise.
Outcome(status, committed, w) == IF status = "Ok" THEN w ELSE committed

\* The instruction returned Ok: the ledger commits the transaction.
Commit ==
    /\ pc = "done"
    /\ tx.status = "Ok"
    /\ LET o == Outcome(tx.status, [accounts |-> store, balance |-> balance], work)
       IN  /\ store' = o.accounts
           /\ balance' = o.balance
           /\ work' = o
    /\ pc' = "idle"
    /\ tx' = NoTx
    /\ UNCHANGED << clock, ntx >>

\* The instruction returned an error or panicked: the ledger discards the
\* transaction's writes.
Rollback ==
    /\ pc = "done"
    /\ tx.status # "Ok"
    /\ LET o == Outcome(tx.status, [accounts |-> store, balance |-> balance], work)
       IN  /\ store' = o.accounts
           /\ balance' = o.balance
           /\ work' = o
    /\ pc' = "idle"
    /\ tx' = NoTx
    /\ UNCHANGED << clock, ntx >>

\* Time passes between transactions.
Tick ==
    /\ pc = "idle"
    /\ clock < MaxClock
    /\ clock' = clock + 1
    /\ UNCHANGED << store, balance, pc, tx, work, ntx >>

Next ==
    \/ RecordEvaluation
    \/ RecordVote
    \/ record_evaluation
    \/ record_vote
    \/ Commit
    \/ Rollback
    \/ Tick

Spec == Init /\ [][Next]_vars

\* ------------------------------------------------------------- properties
\* The slot derived from the key of the instruction in flight.
Target == Pda(tx.kind, tx.authority, tx.project_id)

\* The instruction in flight is a call for the key (tx.authority,
\* tx.project_id): signed by the authority, with the key's own account.
CallForKey ==
    /\ tx.kind \in Kinds
    /\ tx.signed
    /\ Target.ok
    /\ tx.account = Target.address

\* The instruction in flight has returned.
Returned == pc = "done" /\ tx.kind \in Kinds

\* C1: a record_evaluation or record_vote for a key whose slot is present
\* fails with the system program's "account already in use", and the ledger
\* keeps the existing record as it was, whatever the payload of the call.
C1_DuplicateFailsRecordKept ==
    [][ (Returned /\ CallForKey /\ Target.address \in DOMAIN store)
        => /\ tx.status = "AccountAlreadyInUse"
           /\ Target.address \in DOMAIN store'
           /\ store'[Target.address] = store[Target.address] ]_vars

\* C1 witness: a second record_evaluation for a present key has returned and
\* carries a payload that differs from the stored record.
C1_Witness ==
    /\ Returned /\ CallForKey
    /\ tx.kind = "eval"
    /\ Target.address \in DOMAIN store
    /\ store[Target.address].data.score # tx.args.score
    /\ store[Target.address].data.reasoning_hash # tx.args.reasoning_hash

\* C2: a slot that is present stays present with the same content in every
\* later state: no step changes or removes an account of the store.
C2_PresentIsPermanent ==
    [][ \A a \in DOMAIN store : a \in DOMAIN store' /\ store'[a] = store[a] ]_vars

\* C2 witness: with a record in the store, a later instruction has
\* succeeded and is about to be committed.
C2_Witness ==
    /\ Returned
    /\ tx.status = "Ok"
    /\ DOMAIN store # {}

\* The record a successful instruction must leave, built from that
\* instruction alone.
RecordOfRequest ==
    IF tx.kind = "eval"
    THEN [disc |-> "EvaluationRecord", authority |-> tx.authority,
          project_id |-> tx.project_id,
          project_name |-> SubSeq(tx.args.project_name, 1,
                                  Min(Len(tx.args.project_name), MaxNameLen)),
          score |-> tx.args.score, confidence |-> tx.args.confidence,
          reasoning_hash |-> tx.args.reasoning_hash,
          timestamp |-> clock, bump |-> Target.bump]
    ELSE [disc |-> "VoteRecord", authority |-> tx.authority,
          project_id |-> tx.project_id, vote_type |-> tx.args.vote_type,
          reasoning_hash |-> tx.args.reasoning_hash,
          timestamp |-> clock, bump |-> Target.bump]

\* C3: of the requests of one kind for one key at most one succeeds: a
\* request succeeds only while the slot is absent, and the slot is present
\* from then on; the record stored is, in every field, the one of the
\* winning request; a request that fails changes neither the store nor a
\* balance.
C3_OneWinnerNoMixture ==
    [][ /\ (Returned /\ tx.status = "Ok")
            => /\ tx.account \notin DOMAIN store
               /\ tx.account \in DOMAIN store'
               /\ store'[tx.account].data = RecordOfRequest
        /\ (Returned /\ tx.status # "Ok")
            => /\ store' = store
               /\ balance' = balance ]_vars

\* C3 witness: a request for a key whose slot another request of the same
\* kind has won returns with a failure.
C3_Witness ==
    /\ Returned /\ CallForKey
    /\ tx.status # "Ok"
    /\ Target.address \in DOMAIN store
    /\ store[Target.address].data.reasoning_hash # tx.args.reasoning_hash

DiscOf(kind) == IF kind = "eval" THEN "EvaluationRecord" ELSE "VoteRecord"

\* The store holds a record of `kind` written for (authority, project_id).
HasRecord(kind, authority, project_id) ==
    \E a \in DOMAIN store :
        /\ store[a].data.disc = DiscOf(kind)
        /\ store[a].data.authority = authority
        /\ store[a].data.project_id = project_id

\* C4: the record of the other kind for the same (authority, project_id)
\* never makes a call fail with "account already in use": while no record
\* of its own kind exists for the key, a call for the key is not refused as
\* a duplicate, also when the record of the other kind exists.
\* With the payer able to pay the rent the call then succeeds, unless the
\* handler itself fails (the clock cannot be read, or the slice of line 20
\* panics: see C6), which does not involve the other record.
C4_KindsIndependent ==
    ( /\ Returned /\ CallForKey
      /\ ~ HasRecord(tx.kind, tx.authority, tx.project_id) )
    => /\ tx.status # "AccountAlreadyInUse"
       /\ balance[tx.authority] >= Rent(SpaceOf(tx.kind))
            => tx.status \in {"Ok", "ClockUnavailable", "Panic"}

\* C4 witness: record_vote has succeeded for a key whose evaluation record
\* is present.
C4_Witness ==
    /\ Returned /\ CallForKey
    /\ tx.kind = "vote"
    /\ tx.status = "Ok"
    /\ HasRecord("eval", tx.authority, tx.project_id)

\* C5: a successful record_evaluation stores the first 64 bytes of a name
\* longer than 64 bytes and a shorter name unmodified; no stored name is
\* longer than 64 bytes.
C5_NameTruncatedTo64 ==
    /\ \A a \in DOMAIN store :
          "project_name" \in DOMAIN store[a].data
              => Len(store[a].data.project_name) <= 64
    /\ (Returned /\ tx.kind = "eval" /\ tx.status = "Ok")
          => work.accounts[tx.account].data.project_name =
                IF Len(tx.args.project_name) > 64
                THEN SubSeq(tx.args.project_name, 1, 64)
                ELSE tx.args.project_name

\* C5 witness: record_evaluation has succeeded with a name of more than 64
\* bytes.
C5_Witness ==
    /\ Returned
    /\ tx.kind = "eval"
    /\ tx.status = "Ok"
    /\ Len(tx.args.project_name) > 64

\* C6 (as claimed): record_evaluation never fails because of its
\* project_name: a call for a key whose slot is absent, by a signer who can
\* pay the rent, succeeds whenever the clock can be read.
C6_NameNeverRejected ==
    ( /\ Returned /\ CallForKey
      /\ tx.kind = "eval"
      /\ Target.address \notin DOMAIN store
      /\ balance[tx.authority] >= Rent(EvaluationSpace) )
    => tx.status \in {"Ok", "ClockUnavailable"}

\* C7: after a successful record_evaluation the committed record holds the
\* project_id, score, confidence and reasoning_hash of the call, for every
\* u16 value, and the clock's value as timestamp; after a successful
\* record_vote it holds the project_id, vote_type and reasoning_hash of the
\* call and the clock's value.
C7_FieldFidelity ==
    [][ (Returned /\ tx.status = "Ok")
        => /\ tx.account \in DOMAIN store'
           /\ LET rec == store'[tx.account].data
              IN  /\ rec.project_id = tx.project_id
                  /\ rec.reasoning_hash = tx.args.reasoning_hash
                  /\ rec.timestamp = clock
                  /\ tx.kind = "eval"
                       => /\ rec.score = tx.args.score
                          /\ rec.confidence = tx.args.confidence
                  /\ tx.kind = "vote"
                       => rec.vote_type = tx.args.vote_type ]_vars

\* C7 witness: record_evaluation has succeeded with a score above 100 that
\* differs from the confidence, at a clock value later than the first.
C7_Witness ==
    /\ Returned
    /\ tx.kind = "eval"
    /\ tx.status = "Ok"
    /\ tx.args.score > 100
    /\ tx.args.score # tx.args.confidence
    /\ clock > 1

\* C8: the commit of a successful instruction adds exactly the slot derived
\* from (kind, signer, project_id) and leaves every other slot, present or
\* absent, as it was.
C8_OnlyDerivedSlotChanges ==
    [][ (Returned /\ tx.status = "Ok")
        => /\ Target.address \notin DOMAIN store
           /\ DOMAIN store' = DOMAIN store \cup {Target.address}
           /\ \A a \in DOMAIN store : store'[a] = store[a] ]_vars

\* C8 witness: a successful instruction is about to be committed while the
\* store holds a record of another key.
C8_Witness ==
    /\ Returned
    /\ tx.status = "Ok"
    /\ \E a \in DOMAIN store : a # Target.address

\* A record is fully populated: it carries its discriminator, an authority
\* and a creation time.  (Zero is no value of the clock, and the default
\* Pubkey signs nothing.)
FullyPopulated(rec) ==
    /\ rec.disc # "zero"
    /\ rec.authority # DefaultPubkey
    /\ rec.timestamp # 0
    /\ rec.reasoning_hash # ZeroHash

\* The errors raised by the validation of the accounts.
ValidationErrors ==
    {"AccountNotSigner", "DerivationExhausted", "ConstraintSeeds",
     "AccountAlreadyInUse", "InsufficientFunds"}

\* C9 (as claimed): every error is detected before or during the create
\* step, so that an instruction that has failed has created no slot, not
\* even inside its transaction: there is no partial write to roll back.
C9_ErrorsBeforeCreate ==
    (Returned /\ tx.status # "Ok") => work.accounts = store

\* C9 (amended): the errors of the account validation are detected with
\* nothing written; a failure of the handler (the clock cannot be read, the
\* handler aborts) is detected after the slot was created inside the
\* transaction, whose writes the ledger discards: a request that fails
\* leaves the store as it was, and no state of the store holds a slot that
\* is created but only partly populated.
C9_NoPartialWrite ==
    /\ [](\A a \in DOMAIN store : FullyPopulated(store[a].data))
    /\ []((Returned /\ tx.status \in ValidationErrors) => work.accounts = store)
    /\ [][ (Returned /\ tx.status # "Ok") => store' = store ]_vars

\* C9 witness: an instruction has failed after its account was created
\* inside the transaction; the zeroed account exists in the transaction's
\* view only.
C9_Witness ==
    /\ Returned
    /\ tx.status # "Ok"
    /\ tx.account \in DOMAIN work.accounts
    /\ tx.account \notin DOMAIN store
    /\ ~ FullyPopulated(work.accounts[tx.account].data)

\* C10: the authority of every present record is the signer of the request
\* that created it, and a slot derived from an authority becomes present
\* only through a request signed by that authority.
C10_SlotOwnedBySigner ==
    [][ \A k \in Kinds, b \in Authorities, p \in ProjectIds :
          LET a == Pda(k, b, p).address
          IN  (a \in DOMAIN store' /\ a \notin DOMAIN store)
                => /\ tx.kind = k
                   /\ tx.signed
                   /\ tx.authority = b
                   /\ store'[a].data.authority = b ]_vars

\* C10 witness: a request signed by one authority for the slot derived from
\* the other has been refused.
C10_Witness ==
    /\ Returned
    /\ tx.signed
    /\ tx.account # Target.address
    /\ tx.account \notin DOMAIN store
    /\ tx.status = "ConstraintSeeds"

\* C11: a request that the claimed authority has not signed is rejected as
\* not signed (AccountNotSigner, the Unauthenticated of the specification)
\* whatever the derivation or the creation would have given: also when no
\* bump exists for its seeds, when the account passed in is not the derived
\* one and when the slot is present.  Nothing is created inside the
\* transaction and the store and the balances stay as they were.
C11_UnsignedRejectedFirst ==
    /\ []((Returned /\ ~ tx.signed)
            => /\ tx.status = "AccountNotSigner"
               /\ work.accounts = store
               /\ work.balance = balance)
    /\ [][ (Returned /\ ~ tx.signed)
            => (store' = store /\ balance' = balance) ]_vars

\* C11 witness: an unsigned request has returned whose seeds have no viable
\* bump, so that the derivation, had it run first, would have failed.
C11_Witness ==
    /\ Returned
    /\ ~ tx.signed
    /\ ~ Target.ok

\* Keys beyond those of the behaviours, for the derivation alone: four
\* authorities, and project ids that differ in one byte only, in each of the
\* four bytes.
SampleAuthorities == {Pubkey(b) : b \in 0..3}
SampleProjectIds == {0, 1, 255, 256, 257, 65536, 16777216, 2147483647}
SampleKeys == SampleAuthorities \X SampleProjectIds

\* The evaluation addresses of the sample keys.
SampleEvaluationPdas ==
    { [key |-> k, pda |-> FindProgramAddress(EvaluationSeeds(k[1], k[2]))] : k \in SampleKeys }

\* Different sample keys have different evaluation addresses.
EvaluationAddressesDiffer ==
    \A e1, e2 \in SampleEvaluationPdas :
        (e1.pda.ok /\ e2.pda.ok /\ e1.key # e2.key) => e1.pda.address # e2.pda.address

\* The store holds a record of `kind` under a key other than (authority,
\* project_id).
HasRecordOfOtherKey(kind, authority, project_id) ==
    \E a \in Authorities, p \in ProjectIds :
        /\ << a, p >> # << authority, project_id >>
        /\ HasRecord(kind, a, p)

\* C13: different (authority, project_id) keys have different evaluation
\* addresses (the hash being collision free), and a record under one key
\* never makes a create request under another key of the same kind fail
\* with "account already in use".
C13_DistinctKeysDistinctSlots ==
    /\ EvaluationAddressesDiffer
    /\ ( /\ Returned /\ CallForKey
         /\ HasRecordOfOtherKey(tx.kind, tx.authority, tx.project_id)
         /\ ~ HasRecord(tx.kind, tx.authority, tx.project_id) )
       => tx.status # "AccountAlreadyInUse"

\* C13 witness: record_evaluation has succeeded for a key while the
\* evaluation record of another key is present.
C13_Witness ==
    /\ Returned /\ CallForKey
    /\ tx.kind = "eval"
    /\ tx.status = "Ok"
    /\ HasRecordOfOtherKey("eval", tx.authority, tx.project_id)

KindOfDisc(disc) == IF disc = "EvaluationRecord" THEN "eval" ELSE "vote"

\* C14: every present record is stored at the address that its own content
\* derives: for the record at address a, the derivation from its kind, its
\* authority and its project_id finds a and the bump the record stores.
C14_RecordAtDerivedAddress ==
    \A a \in DOMAIN store :
        LET rec == store[a].data
            pda == Pda(KindOfDisc(rec.disc), rec.authority, rec.project_id)
        IN  /\ rec.disc \in {"EvaluationRecord", "VoteRecord"}
            /\ rec.authority \in Authorities
            /\ rec.project_id \in ProjectIds
            /\ pda.ok
            /\ pda.address = a
            /\ pda.bump = rec.bump

\* C14 witness: the store holds a record whose bump is not the first one
\* tried.
C14_Witness ==
    \E a \in DOMAIN store : store[a].data.bump < 255

\* A request for the slot of its own key, signed by its authority.
Requests ==
    [kind : {"eval"}, authority : Authorities, project_id : ProjectIds, args : EvaluationArgs]
    \cup [kind : {"vote"}, authority : Authorities, project_id : ProjectIds, args : VoteArgs]

KeyOf(r) == << r.kind, r.authority, r.project_id >>

\* The ledger after request r was processed on the ledger w at the current
\* clock value: the validation of the accounts, the handler, the write-back
\* and the commit or the rollback, as the actions perform them.
Execute(w, r) ==
    LET pda == Pda(r.kind, r.authority, r.project_id)
        v   == TryAccounts(w, r.kind, r.authority, TRUE, pda.address, r.project_id)
        h   == IF r.kind = "eval"
               THEN EvaluationHandler(v.work.accounts[pda.address].data, r.authority,
                                      r.project_id, r.args, TRUE, clock, v.bump)
               ELSE VoteHandler(v.work.accounts[pda.address].data, r.authority,
                                r.project_id, r.args, TRUE, clock, v.bump)
        x   == AccountExit(v.work, pda.address, h.rec, DiscOf(r.kind))
        st  == IF v.status # "Ok" THEN v.status
               ELSE IF h.status # "Ok" THEN h.status
               ELSE x.status
    IN  [status |-> st,
         ledger |-> Outcome(st, w, IF st = "Ok" THEN x.work ELSE w),
         stored |-> IF st = "Ok"
                    THEN [x.work.accounts[pda.address].data EXCEPT !.timestamp = 0]
                    ELSE << >>]

Ledger == [accounts |-> store, balance |-> balance]

\* Every request with the result of processing it first on the ledger w.
ProcessedFirst(w) == { [request |-> r, result |-> Execute(w, r)] : r \in Requests }

\* The request of f2 fares the same processed first and processed on the
\* ledger that the request of f1 has left: the same status and the same
\* record, the timestamp apart.
SameEitherOrder(f1, f2) ==
    LET after == Execute(f1.result.ledger, f2.request)
    IN  /\ after.status = f2.result.status
        /\ after.stored = f2.result.stored

FundsForBoth(w, r1, r2) ==
    r1.authority = r2.authority
        => w.balance[r1.authority] >= Rent(SpaceOf(r1.kind)) + Rent(SpaceOf(r2.kind))

C17_RecordFitsSlot ==
    /\ EvaluationSpace = 157
    /\ VoteSpace = 86
    /\ Returned => tx.status # "AccountDidNotSerialize"
    /\ \A a \in DOMAIN work.accounts :
          /\ work.accounts[a].space \in {EvaluationSpace, VoteSpace}
          /\ SerializedLen(work.accounts[a].data) <= work.accounts[a].space
    /\ \A a \in DOMAIN store :
          /\ store[a].space = SpaceOf(KindOfDisc(store[a].data.disc))
          /\ SerializedLen(store[a].data) <= store[a].space

\* C17 witness: the store holds an evaluation record with a name of 64
\* bytes, which fills its slot to the last byte.
C17_Witness ==
    \E a \in DOMAIN store :
        /\ store[a].data.disc = "EvaluationRecord"
        /\ Len(store[a].data.project_name) = 64
        /\ SerializedLen(store[a].data) = store[a].space

====
